---- MODULE Spec2Model ----
(***************************************************************************)
(* A model of maze_py: the grid of cells with its link graph and its       *)
(* parent/children fields (grid.py), the three generators                  *)
(* (generators/), the two solvers (solvers/) and the recorder      *)
(* (animation.py).                                                         *)
(*                                                                         *)
(* A cell is identified by its coordinates <<x, y>> (Cell.__eq__ and       *)
(* Cell.__hash__ compare coordinates).  A Python dict is a sequence of     *)
(* <<key, value>> pairs in insertion order; a Python list is a sequence.   *)
(* None is the empty tuple.  Cell._depth_cache is read by Cell.depth()     *)
(* only, which no modelled operation calls, and is left out; runtime_ms    *)
(* (a wall-clock reading) is left out of the solver statistics.            *)
(***************************************************************************)
EXTENDS Integers, Sequences, FiniteSets, TLC

VARIABLES
    grid,       \* "none" before MazeGrid(...) returns, "ok" after
    width,      \* MazeGrid.width
    height,     \* MazeGrid.height
    cells,      \* MazeGrid._cells: cells[x+1][y+1] is the cell stored at [x][y]
    links,      \* Cell.links of every cell: an ordered dict  neighbour -> weight
    parent,     \* Cell.parent of every cell (None or a cell)
    children,   \* Cell.children of every cell (a list of cells)
    error,      \* the exception the last call raised to the caller, or "none"
    cellRes,    \* what the last MazeGrid.cell(x, y) call of the caller returned
    callArgs,   \* the last MazeGrid(), cell(), generate() or solve() call: its name and arguments
    manualOps,  \* number of direct link/unlink/reset_links calls made so far
    rng,        \* the generator instances: class, seed and the draws made since seeding
    oracle,     \* the values seeded random streams have been seen to produce
    gen,        \* the locals of the generate() call in progress (idle: the last one's generator)
    tree,       \* the MazeTree the caller holds (None or [root, visit_order])
    events,     \* AnimationRecorder._events of the recorder of the last call
    runs,       \* per seeded generator instance, what each finished generate() produced
    sol,        \* the locals of the solve() call in progress (idle: the last one's solver, target)
    solution    \* the MazeSolution the caller holds (None or the record solve() returned)

gridVars == <<grid, width, height, cells, links, parent, children>>

None == <<>>

vars ==
    <<gridVars, error, cellRes, callArgs, manualOps, rng, oracle, gen, tree, events, runs,
      sol, solution>>

(* ----------------------------- bounds -------------------------------- *)

\* Grids of the main specification have at most MaxCells cells.
MaxCells == 4
\* Grids of the specification of direct link calls have at most MaxLinkCells.
MaxLinkCells == 3
\* Link weights passed by the caller are 1..MaxWeight.
MaxWeight == 2
\* At most MaxManualOps direct link/unlink/reset_links calls in a behaviour.
MaxManualOps == 2
\* Constructor arguments tried are MinDim..MaxDim.
MaxDim == 3
\* Grids of the specification of seeded generators have at most MaxReproCells.
MaxReproCells == 3
\* Each seeded generator instance runs generate() at most MaxRuns times.
MaxRuns == 2

\* Grids of the specification of failing calls have at most MaxErrCells cells,
\* and the coordinates passed to generate() and solve() are MinDim..MaxErrCells.
MaxErrCells == 2

MinDim == 0 - 1

(* ------------------------ Python containers -------------------------- *)

Range(s) == {s[i] : i \in 1..Len(s)}

\* The keys of a dict, in iteration order.
DictKeys(d) == [i \in 1..Len(d) |-> d[i][1]]

DictHas(d, k) == \E i \in 1..Len(d) : d[i][1] = k

DictGet(d, k) == d[CHOOSE i \in 1..Len(d) : d[i][1] = k][2]

\* d[k] = v: an existing key keeps its place, a new key goes last.
DictSet(d, k, v) ==
    IF DictHas(d, k)
    THEN [i \in 1..Len(d) |-> IF d[i][1] = k THEN <<k, v>> ELSE d[i]]
    ELSE Append(d, <<k, v>>)

\* d.pop(k, None)
DictPop(d, k) == SelectSeq(d, LAMBDA e : e[1] # k)

\* A pop that removes the last element whatever idx is.
ListPopLast(s, idx) == SubSeq(s, 1, Len(s) - 1)

\* list.pop(idx), idx 0-based
ListPop(s, idx) == SubSeq(s, 1, idx) \o SubSeq(s, idx + 2, Len(s))

(* ------------------------------ grid --------------------------------- *)

\* The cells MazeGrid.__init__ creates: [[Cell(x, y) for y in range(h)] for x in range(w)]
NewCells(w, h) == [i \in 1..w |-> [j \in 1..h |-> <<i - 1, j - 1>>]]

Cells == {cells[i][j] : i \in 1..Len(cells), j \in 1..(IF cells = <<>> THEN 0 ELSE Len(cells[1]))}

containsNoLowerBound(x, y) == x < width /\ y < height

\* MazeGrid.contains
contains(x, y) == 0 <= x /\ x < width /\ 0 <= y /\ y < height

\* Python list indexing lst[i]: a negative index counts from the end.
PyIndexOk(s, i) == (0 - Len(s)) <= i /\ i < Len(s)

PyIndex(s, i) == IF i >= 0 THEN s[i + 1] ELSE s[Len(s) + i + 1]

\* A cell() that indexes the lists without the bounds check.
cellNoCheck(x, y) ==
    IF PyIndexOk(cells, x) /\ PyIndexOk(PyIndex(cells, x), y)
    THEN [ok |-> TRUE, val |-> PyIndex(PyIndex(cells, x), y)]
    ELSE [ok |-> FALSE, val |-> "IndexError"]

\* MazeGrid.cell: [ok |-> TRUE, val |-> the cell] or [ok |-> FALSE, val |-> the exception].
cell(x, y) ==
    IF ~contains(x, y)
    THEN [ok |-> FALSE, val |-> "IndexError"]
    ELSE IF PyIndexOk(cells, x) /\ PyIndexOk(PyIndex(cells, x), y)
         THEN [ok |-> TRUE, val |-> PyIndex(PyIndex(cells, x), y)]
         ELSE [ok |-> FALSE, val |-> "IndexError"]

\* MazeGrid.__iter__: every column in turn, each from y = 0 up.
RECURSIVE Flatten(_)
Flatten(cols) == IF cols = <<>> THEN <<>> ELSE Head(cols) \o Flatten(Tail(cols))

AllCells == Flatten(cells)

Offsets == <<<<1, 0>>, <<0 - 1, 0>>, <<0, 1>>, <<0, 0 - 1>>>>

\* MazeGrid.neighbor_coords: the in-bounds orthogonal coordinates, in offsets order.
neighbor_coords(c) ==
    SelectSeq([i \in 1..4 |-> <<c[1] + Offsets[i][1], c[2] + Offsets[i][2]>>],
              LAMBDA p : contains(p[1], p[2]))

\* MazeGrid.neighbors
neighbors(c) ==
    LET nc == neighbor_coords(c)
    IN [i \in 1..Len(nc) |-> cell(nc[i][1], nc[i][2]).val]

(* The per-cell fields as one value h = [links, parent, children], so that *)
(* the methods of Cell are operators from h to h.                          *)
Heap == [links |-> links, parent |-> parent, children |-> children]

EmptyHeap(cs) ==
    [links |-> [c \in cs |-> <<>>], parent |-> [c \in cs |-> None],
     children |-> [c \in cs |-> <<>>]]

CellLinkOneWay(h, a, b, w) ==
    [h EXCEPT !.links = [h.links EXCEPT ![a] = DictSet(@, b, w)]]

\* Cell.link: self.links[other] = weight; other.links[self] = weight
CellLink(h, a, b, w) ==
    LET l1 == [h.links EXCEPT ![a] = DictSet(@, b, w)]
        l2 == [l1 EXCEPT ![b] = DictSet(@, a, w)]
    IN [h EXCEPT !.links = l2]

\* Cell.unlink
CellUnlink(h, a, b) ==
    LET l1 == [h.links EXCEPT ![a] = DictPop(@, b)]
        l2 == [l1 EXCEPT ![b] = DictPop(@, a)]
    IN [h EXCEPT !.links = l2]

RECURSIVE PopFromAll(_, _, _)
PopFromAll(l, ks, c) ==
    IF ks = <<>> THEN l
    ELSE PopFromAll([l EXCEPT ![Head(ks)] = DictPop(@, c)], Tail(ks), c)

reset_linksNoBackrefs(h, c) ==
    [links |-> [h.links EXCEPT ![c] = <<>>],
     parent |-> [h.parent EXCEPT ![c] = None],
     children |-> [h.children EXCEPT ![c] = <<>>]]

\* Cell.reset_links: drop self from every neighbour's links, then clear the fields.
reset_links(h, c) ==
    LET l1 == PopFromAll(h.links, DictKeys(h.links[c]), c)
    IN [links |-> [l1 EXCEPT ![c] = <<>>],
        parent |-> [h.parent EXCEPT ![c] = None],
        children |-> [h.children EXCEPT ![c] = <<>>]]

RECURSIVE ResetEach(_, _)
ResetEach(h, cs) ==
    IF cs = <<>> THEN h ELSE ResetEach(reset_links(h, Head(cs)), Tail(cs))

\* A reset that empties the links and leaves the tree fields.
resetLinksOnly(h) == [h EXCEPT !.links = [c \in DOMAIN h.links |-> <<>>]]

\* MazeGrid.reset: for cell in self: cell.reset_links()
reset(h) == ResetEach(h, AllCells)

\* MazeGrid.link: a.link(b, weight)
GridLink(h, a, b, w) == CellLink(h, a, b, w)

SetHeap(h) ==
    /\ links' = h.links
    /\ parent' = h.parent
    /\ children' = h.children

(* ------------------------- caller's actions -------------------------- *)

\* MazeGrid(w, h): raises ValueError (InvalidDimensions) or builds the grid.
Construct(w, h) ==
    /\ grid = "none"
    /\ error = "none"
    /\ callArgs' = <<"MazeGrid", w, h>>
    /\ IF w <= 0 \/ h <= 0
       THEN /\ error' = "ValueError"
            /\ UNCHANGED gridVars
       ELSE /\ error' = "none"
            /\ grid' = "ok"
            /\ width' = w
            /\ height' = h
            /\ cells' = NewCells(w, h)
            /\ SetHeap(EmptyHeap(Range(Flatten(NewCells(w, h)))))
    /\ UNCHANGED <<cellRes, manualOps, rng, oracle, gen, tree, events, runs, sol, solution>>

\* grid.cell(x, y) called by the caller.
CellCall(x, y) ==
    /\ grid = "ok"
    /\ callArgs' = <<"cell", x, y>>
    /\ cellRes' = cell(x, y)
    /\ error' = IF cell(x, y).ok THEN "none" ELSE cell(x, y).val
    /\ UNCHANGED <<gridVars, manualOps, rng, oracle, gen, tree, events, runs, sol, solution>>

(* ------------------------- random streams ---------------------------- *)

(* random.Random(seed) is a deterministic stream: what a draw returns is a *)
(* function of the seed and of the draws made since seeding, a function    *)
(* the model does not know.  oracle holds the <<seed, draws>> prefixes     *)
(* seen so far: a draw that was seen before returns what it returned       *)
(* then, any other draw returns any value of its range.  Random(None) is   *)
(* seeded from the system's entropy: every draw returns any value, and     *)
(* nothing is remembered.  A draw is <<n, r>>: _randbelow(n) returned r.   *)

RngOwnerShared(g) == 1

\* Each instance draws from its own self._random.
RngOwner(g) == g

Seed(g) == rng[RngOwner(g)].seed

\* Whether the instance was built with a seed (seed=None: from the system's entropy).
Seeded(g) == rng[RngOwner(g)].seeded

Hist(g) == rng[RngOwner(g)].hist

DrawOK(g, h, d) ==
    /\ d[2] \in 0..(d[1] - 1)
    /\ Seeded(g) =>
         \A q \in 0..(d[1] - 1) : <<Seed(g), Append(h, <<d[1], q>>)>> \in oracle => q = d[2]

\* The draws ds, made in this order by instance g, are what its stream gives.
DrawsOK(g, ds) ==
    \A k \in 1..Len(ds) : DrawOK(g, Hist(g) \o SubSeq(ds, 1, k - 1), ds[k])

Drawn(g, ds) ==
    IF ~Seeded(g)
    THEN UNCHANGED <<rng, oracle>>
    ELSE /\ rng' = [rng EXCEPT ![RngOwner(g)].hist = @ \o ds]
         /\ oracle' = oracle \cup
                {<<Seed(g), Hist(g) \o SubSeq(ds, 1, k)>> : k \in 1..Len(ds)}

(* ----------------------------- recorder ------------------------------ *)

\* AnimationRecorder.record(phase, event, **payload); an absent field is None (-1 for step).
Event(phase, event) ==
    [phase |-> phase, event |-> event, cell |-> None, parent |-> None,
     child |-> None, step |-> 0 - 1, cells |-> None]

EvActivate(c, step) == [Event("generate", "activate") EXCEPT !.cell = c, !.step = step]

\* A link event with parent and child exchanged.
EvLinkSwapped(p, c) == [Event("generate", "link") EXCEPT !.parent = c, !.child = p]

EvLink(p, c) == [Event("generate", "link") EXCEPT !.parent = p, !.child = c]

\* recorder.record(...) under "if recorder:"
record(evs, rec, e) == IF rec THEN Append(evs, e) ELSE evs

(* ---------------------------- generators ----------------------------- *)

Kinds == {"binary_tree", "random_growth", "spanning_tree"}

IdleGen ==
    [pc |-> "idle", kind |-> "none", inst |-> 0, root |-> None, visit_order |-> <<>>,
     work |-> <<>>, visited |-> {}, step |-> 0, x |-> 0, y |-> 0, rec |-> FALSE]

\* No solve() call in progress.
IdleSol ==
    [pc |-> "idle", kind |-> "none", target |-> None, work |-> <<>>,
     parents |-> <<>>, explored |-> <<>>, rec |-> FALSE]

\* neighbor.parent = cell; cell.children.append(neighbor), after grid.link(cell, neighbor)
Carve(h, c, n) ==
    LET h1 == GridLink(h, c, n, 1)
    IN [h1 EXCEPT !.parent = [h1.parent EXCEPT ![n] = c],
                  !.children = [h1.children EXCEPT ![c] = Append(@, n)]]

generateResetSkipped(h) == h

\* A generate() that starts by emptying the links only.
generateResetLinksOnly(h) == resetLinksOnly(h)

\* The grid.reset() every generate() starts with.
generateReset(h) == reset(h)

(* generate(grid, start, recorder): grid.reset(), root = grid.cell(start)    *)
(* (which may raise IndexError), then the locals of the loop.  The caller   *)
(* rebinds its tree, recorder and solution variables to the results of      *)
(* this call, so the old values are dropped here.                           *)
GenerateCall(g, start, rec) ==
    /\ grid = "ok"
    /\ gen.pc = "idle"
    /\ sol.pc = "idle"
    /\ LET h == generateReset(Heap)
           r == cell(start[1], start[2])
       IN /\ SetHeap(h)
          /\ events' = <<>>
          /\ IF ~r.ok
             THEN /\ error' = r.val
                  /\ UNCHANGED <<gen, tree, sol, solution>>
             ELSE /\ error' = "none"
                  /\ tree' = None
                  /\ solution' = None
                  /\ sol' = IdleSol
                  /\ gen' = [IdleGen EXCEPT
                               !.pc = "loop", !.kind = rng[g].kind, !.inst = g,
                               !.root = r.val, !.rec = rec,
                               !.work = IF rng[g].kind = "binary_tree" THEN <<>> ELSE <<r.val>>,
                               !.visited = IF rng[g].kind = "binary_tree" THEN {} ELSE {r.val}]
    /\ callArgs' = <<"generate", g, start>>
    /\ UNCHANGED <<grid, width, height, cells, cellRes, manualOps, rng, oracle, runs>>

\* Choices that hold the east neighbour only.
BinaryChoicesEastOnly(x, y) ==
    IF contains(x + 1, y) THEN <<cell(x + 1, y).val>> ELSE <<>>

\* The east and south neighbours of (x, y) that are in bounds, in this order.
BinaryChoices(x, y) ==
    (IF contains(x + 1, y) THEN <<cell(x + 1, y).val>> ELSE <<>>)
        \o (IF contains(x, y + 1) THEN <<cell(x, y + 1).val>> ELSE <<>>)

BinaryNextXYColumnMajor(x, y) ==
    IF y + 1 < height THEN <<x, y + 1>> ELSE <<x + 1, 0>>

\* for y in range(grid.height): for x in range(grid.width): the indices after (x, y);
\* y = height when the loops are over.
BinaryNextXY(x, y) ==
    IF x + 1 < width THEN <<x + 1, y>> ELSE <<0, y + 1>>

\* One iteration of BinaryTreeGenerator's loops; r is what choice() drew.
BinaryTreeStep(r) ==
    /\ gen.pc = "loop"
    /\ gen.kind = "binary_tree"
    /\ gen.y < height
    /\ LET c == cell(gen.x, gen.y).val
           order == Append(gen.visit_order, c)
           ev1 == record(events, gen.rec, EvActivate(c, Len(order)))
           choices == BinaryChoices(gen.x, gen.y)
           nxt == BinaryNextXY(gen.x, gen.y)
           g2 == [gen EXCEPT !.visit_order = order, !.x = nxt[1], !.y = nxt[2]]
       IN IF choices = <<>>
          THEN /\ r = 0
               /\ gen' = g2
               /\ events' = ev1
               /\ UNCHANGED <<links, parent, children, rng, oracle>>
          ELSE /\ DrawsOK(gen.inst, <<<<Len(choices), r>>>>)
               /\ Drawn(gen.inst, <<<<Len(choices), r>>>>)
               /\ gen' = g2
               /\ SetHeap(Carve(Heap, c, choices[r + 1]))
               /\ events' = record(ev1, gen.rec, EvLink(c, choices[r + 1]))
    /\ UNCHANGED <<grid, width, height, cells, error, cellRes, callArgs, manualOps, tree, runs, sol, solution>>

\* [n for n in grid.neighbors(cell) if n.coords not in visited]
Unvisited(c, visited) == SelectSeq(neighbors(c), LAMBDA n : n \notin visited)

\* One iteration of RandomGrowthGenerator's loop; r1 is what randrange() drew, r2 choice().
RandomGrowthStep(r1, r2) ==
    /\ gen.pc = "loop"
    /\ gen.kind = "random_growth"
    /\ gen.work # <<>>
    /\ r1 \in 0..(Len(gen.work) - 1)
    /\ LET c == gen.work[r1 + 1]
           order == Append(gen.visit_order, c)
           ev1 == record(events, gen.rec, EvActivate(c, gen.step))
           candidates == Unvisited(c, gen.visited)
           g2 == [gen EXCEPT !.visit_order = order, !.step = @ + 1]
       IN IF candidates = <<>>
          THEN /\ r2 = 0
               /\ DrawsOK(gen.inst, <<<<Len(gen.work), r1>>>>)
               /\ Drawn(gen.inst, <<<<Len(gen.work), r1>>>>)
               /\ gen' = [g2 EXCEPT !.work = ListPop(gen.work, r1)]
               /\ events' = ev1
               /\ UNCHANGED <<links, parent, children>>
          ELSE /\ DrawsOK(gen.inst, <<<<Len(gen.work), r1>>, <<Len(candidates), r2>>>>)
               /\ Drawn(gen.inst, <<<<Len(gen.work), r1>>, <<Len(candidates), r2>>>>)
               /\ gen' = [g2 EXCEPT !.work = Append(@, candidates[r2 + 1]),
                                    !.visited = @ \cup {candidates[r2 + 1]}]
               /\ SetHeap(Carve(Heap, c, candidates[r2 + 1]))
               /\ events' = record(ev1, gen.rec, EvLink(c, candidates[r2 + 1]))
    /\ UNCHANGED <<grid, width, height, cells, error, cellRes, callArgs, manualOps, tree, runs, sol, solution>>

\* An inner loop that links the first unvisited neighbour only.
LinkFirstUnvisited(st, c, ns, rec) ==
    LET un == SelectSeq(ns, LAMBDA n : n \notin st.visited)
    IN IF un = <<>> THEN st
       ELSE [h |-> Carve(st.h, c, Head(un)),
             visited |-> st.visited \cup {Head(un)},
             frontier |-> Append(st.frontier, Head(un)),
             evs |-> record(st.evs, rec, EvLink(c, Head(un)))]

(* SpanningTreeGenerator's inner loop over grid.neighbors(cell): st is      *)
(* [h, visited, frontier, evs], ns the neighbours still to look at.         *)
RECURSIVE LinkUnvisited(_, _, _, _)
LinkUnvisited(st, c, ns, rec) ==
    IF ns = <<>> THEN st
    ELSE IF Head(ns) \in st.visited
         THEN LinkUnvisited(st, c, Tail(ns), rec)
         ELSE LinkUnvisited(
                  [h |-> Carve(st.h, c, Head(ns)),
                   visited |-> st.visited \cup {Head(ns)},
                   frontier |-> Append(st.frontier, Head(ns)),
                   evs |-> record(st.evs, rec, EvLink(c, Head(ns)))],
                  c, Tail(ns), rec)

\* One iteration of SpanningTreeGenerator's loop; r is what randrange() drew.
SpanningTreeStep(r) ==
    /\ gen.pc = "loop"
    /\ gen.kind = "spanning_tree"
    /\ gen.work # <<>>
    /\ DrawsOK(gen.inst, <<<<Len(gen.work), r>>>>)
    /\ Drawn(gen.inst, <<<<Len(gen.work), r>>>>)
    /\ LET c == gen.work[r + 1]
           st == LinkUnvisited(
                     [h |-> Heap, visited |-> gen.visited,
                      frontier |-> ListPop(gen.work, r),
                      evs |-> record(events, gen.rec, EvActivate(c, gen.step))],
                     c, neighbors(c), gen.rec)
       IN /\ gen' = [gen EXCEPT !.visit_order = Append(@, c), !.step = @ + 1,
                                !.work = st.frontier, !.visited = st.visited]
          /\ SetHeap(st.h)
          /\ events' = st.evs
    /\ UNCHANGED <<grid, width, height, cells, error, cellRes, callArgs, manualOps, tree, runs, sol, solution>>

\* The loop of the running generator has nothing left to do.
GenLoopOver ==
    IF gen.kind = "binary_tree" THEN gen.y >= height ELSE gen.work = <<>>

\* What a finished generate() left: the link graph and the recorded events.
RunResult ==
    [start |-> gen.root, links |-> links, events |-> events, visit_order |-> gen.visit_order]

\* return MazeTree(grid=grid, root=root, visit_order=visit_order)
GenerateReturn ==
    /\ gen.pc = "loop"
    /\ GenLoopOver
    /\ tree' = [root |-> gen.root, visit_order |-> gen.visit_order]
    /\ gen' = [IdleGen EXCEPT !.kind = gen.kind, !.inst = gen.inst]
    /\ runs' = IF ~Seeded(gen.inst) THEN runs
               ELSE [runs EXCEPT ![gen.inst] = Append(@, RunResult)]
    /\ UNCHANGED <<gridVars, error, cellRes, callArgs, manualOps, rng, oracle, events, sol, solution>>

GenerateStep ==
    \/ \E r \in 0..1 : BinaryTreeStep(r)
    \/ \E r1 \in 0..(Len(gen.work) - 1), r2 \in 0..3 : RandomGrowthStep(r1, r2)
    \/ \E r \in 0..(Len(gen.work) - 1) : SpanningTreeStep(r)

(* ------------------------------ solvers ------------------------------ *)

Solvers == {"bfs", "dfs"}

EvExplore(c, p) == [Event("solve", "explore") EXCEPT !.cell = c, !.parent = p]

\* A path event without its cells.
EvPathNoCells(path) == Event("solve", "path")

EvPath(path) == [Event("solve", "path") EXCEPT !.cells = path]

\* d[k] = v on a dict kept as a function (parents is only looked up, never iterated).
MapSet(m, k, v) == [x \in DOMAIN m \cup {k} |-> IF x = k THEN v ELSE m[x]]

\* The locals of _traverse before its loop: queue/stack [root], parents {root: None}.
traverse_init(k, target_cell, rec) ==
    [IdleSol EXCEPT !.pc = "loop", !.kind = k, !.target = target_cell, !.rec = rec,
                    !.work = <<tree.root>>, !.parents = MapSet(<<>>, tree.root, None)]

(* solve(tree, target, recorder) up to the loop of _traverse:               *)
(* target_cell = tree.grid.cell(target), which may raise IndexError, then   *)
(* the queue (bfs) or stack (dfs), parents and explored.                    *)
SolveCall(k, target, rec) ==
    /\ grid = "ok"
    /\ gen.pc = "idle"
    /\ sol.pc = "idle"
    /\ tree # None
    /\ events' = <<>>
    /\ LET r == cell(target[1], target[2])
       IN IF ~r.ok
          THEN /\ error' = r.val
               /\ UNCHANGED <<sol, solution>>
          ELSE /\ error' = "none"
               /\ solution' = None
               /\ sol' = traverse_init(k, r.val, rec)
    /\ callArgs' = <<"solve", k, target>>
    /\ UNCHANGED <<gridVars, cellRes, manualOps, rng, oracle, gen, tree, runs>>

\* An expansion without the "if neighbor in parents: continue".
RECURSIVE ExpandNoCheck(_, _, _)
ExpandNoCheck(st, c, ns) ==
    IF ns = <<>> THEN st
    ELSE ExpandNoCheck([parents |-> MapSet(st.parents, Head(ns), c),
                        work |-> Append(st.work, Head(ns))],
                       c, Tail(ns))

(* for neighbor in cell.links: skip it if it is in parents, else            *)
(* parents[neighbor] = cell and append it to the queue/stack.               *)
(* st is [parents, work], ns the keys of cell.links still to look at.       *)
RECURSIVE Expand(_, _, _)
Expand(st, c, ns) ==
    IF ns = <<>> THEN st
    ELSE IF Head(ns) \in DOMAIN st.parents
         THEN Expand(st, c, Tail(ns))
         ELSE Expand([parents |-> MapSet(st.parents, Head(ns), c),
                      work |-> Append(st.work, Head(ns))],
                     c, Tail(ns))

\* A stack popped at the wrong end.
PopBackAsQueue(s) == [cell |-> Head(s), rest |-> Tail(s)]

\* stack.pop()
PopBack(s) == [cell |-> s[Len(s)], rest |-> SubSeq(s, 1, Len(s) - 1)]

\* A queue popped at the wrong end.
PopFrontAsStack(s) == [cell |-> s[Len(s)], rest |-> SubSeq(s, 1, Len(s) - 1)]

\* queue.popleft()
PopFront(s) == [cell |-> Head(s), rest |-> Tail(s)]

\* BreadthFirstSolver pops the front of its queue, DepthFirstSolver the top of its stack.
PopWork(k, s) == IF k = "bfs" THEN PopFront(s) ELSE PopBack(s)

\* An iteration that does not stop at the target.
traverse_stepNoBreak(s, evs) ==
    LET p == PopWork(s.kind, s.work)
        c == p.cell
        s1 == [s EXCEPT !.explored = Append(@, c), !.work = p.rest]
        st == Expand([parents |-> s.parents, work |-> p.rest], c, DictKeys(links[c]))
    IN [sol |-> [s1 EXCEPT !.parents = st.parents, !.work = st.work],
        events |-> record(evs, s.rec, EvExplore(c, s.parents[c]))]

(* One iteration of the while loop of _traverse, from the locals s and the *)
(* recorder's events evs to the new locals and events: pop a cell, append  *)
(* it to explored, record it, break if it is the target, else expand it.   *)
traverse_step(s, evs) ==
    LET p == PopWork(s.kind, s.work)
        c == p.cell
        s1 == [s EXCEPT !.explored = Append(@, c), !.work = p.rest]
        st == Expand([parents |-> s.parents, work |-> p.rest], c, DictKeys(links[c]))
    IN [sol |-> IF c = s.target
                THEN [s1 EXCEPT !.pc = "build"]
                ELSE [s1 EXCEPT !.parents = st.parents, !.work = st.work],
        events |-> record(evs, s.rec, EvExplore(c, s.parents[c]))]

\* An iteration that also stores the search parent of the popped cell in the cell.
SolveStepWritesParent ==
    /\ sol.pc = "loop"
    /\ sol.work # <<>>
    /\ sol' = traverse_step(sol, events).sol
    /\ events' = traverse_step(sol, events).events
    /\ parent' = [parent EXCEPT ![PopWork(sol.kind, sol.work).cell] =
                                   sol.parents[PopWork(sol.kind, sol.work).cell]]
    /\ UNCHANGED <<grid, width, height, cells, links, children, error, cellRes, callArgs,
                   manualOps, rng, oracle, gen, tree, runs, solution>>

\* One iteration of the while loop of _traverse.
SolveStep ==
    /\ sol.pc = "loop"
    /\ sol.work # <<>>
    /\ sol' = traverse_step(sol, events).sol
    /\ events' = traverse_step(sol, events).events
    /\ UNCHANGED <<gridVars, error, cellRes, callArgs, manualOps, rng, oracle, gen, tree,
                   runs, solution>>

\* The while loop of _build_path; fuel bounds the walk by the size of parents.
RECURSIVE WalkParents(_, _, _)
WalkParents(parents, cursor, fuel) ==
    IF cursor = None \/ fuel = 0 THEN <<>>
    ELSE WalkParents(parents, parents[cursor], fuel - 1) \o <<cursor>>

RECURSIVE WalkParentsForward(_, _, _)
WalkParentsForward(parents, cursor, fuel) ==
    IF cursor = None \/ fuel = 0 THEN <<>>
    ELSE <<cursor>> \o WalkParentsForward(parents, parents[cursor], fuel - 1)

_build_pathNotReversed(parents, target) ==
    IF target \notin DOMAIN parents THEN <<>>
    ELSE WalkParentsForward(parents, target, Cardinality(DOMAIN parents))

\* MazeSolver._build_path: [] if target is not in parents, else the reversed walk.
_build_path(parents, target) ==
    IF target \notin DOMAIN parents THEN <<>>
    ELSE WalkParents(parents, target, Cardinality(DOMAIN parents))

MazeSolutionLenAsLength(k, path, explored) ==
    [path |-> path, explored |-> explored, found |-> path # <<>>,
     algorithm |-> k, nodes_expanded |-> Len(explored),
     path_length |-> Len(path)]

\* A solution that is always marked found.
MazeSolutionAlwaysFound(k, path, explored) ==
    [path |-> path, explored |-> explored, found |-> TRUE,
     algorithm |-> k, nodes_expanded |-> Len(explored),
     path_length |-> IF path # <<>> THEN Len(path) - 1 ELSE 0]

\* What solve() builds from path and explored.
MazeSolution(k, path, explored) ==
    [path |-> path, explored |-> explored, found |-> path # <<>>,
     algorithm |-> k, nodes_expanded |-> Len(explored),
     path_length |-> IF path # <<>> THEN Len(path) - 1 ELSE 0]

\* The end of _traverse (after the loop ended or broke) and of solve().
SolveReturn ==
    /\ \/ sol.pc = "build"
       \/ sol.pc = "loop" /\ sol.work = <<>>
    /\ LET path == _build_path(sol.parents, sol.target)
       IN /\ events' = IF path # <<>> THEN record(events, sol.rec, EvPath(path)) ELSE events
          /\ solution' = MazeSolution(sol.kind, path, sol.explored)
    /\ sol' = [IdleSol EXCEPT !.kind = sol.kind, !.target = sol.target]
    /\ UNCHANGED <<gridVars, error, cellRes, callArgs, manualOps, rng, oracle, gen, tree, runs>>

(* A whole solve(tree, target) as a value: the loop run to its end from the *)
(* initial locals, then the MazeSolution.  fuel bounds the iterations: each *)
(* adds a cell to explored, and a cell enters the queue/stack once.         *)
RECURSIVE TraverseLoop(_, _)
TraverseLoop(s, fuel) ==
    IF s.pc = "loop" /\ s.work # <<>> /\ fuel > 0
    THEN TraverseLoop(traverse_step(s, <<>>).sol, fuel - 1)
    ELSE s

SolveRun(k, target_cell) ==
    LET s == TraverseLoop(traverse_init(k, target_cell, FALSE), Cardinality(Cells))
    IN MazeSolution(k, _build_path(s.parents, s.target), s.explored)

\* The while loop of MazeTree.path_to; fuel bounds the walk by the number of cells.
RECURSIVE WalkUp(_, _)
WalkUp(cursor, fuel) ==
    IF cursor = None \/ fuel = 0 THEN <<>>
    ELSE WalkUp(parent[cursor], fuel - 1) \o <<cursor>>

\* MazeTree.path_to(target): the parent chain of target, reversed.
path_to(target) == WalkUp(target, Cardinality(Cells))

(* ---------------------- direct calls on cells ------------------------ *)

\* a.link(b, w) called by the caller
Link(a, b, w) ==
    /\ grid = "ok" /\ gen.pc = "idle" /\ sol.pc = "idle" /\ manualOps < MaxManualOps
    /\ SetHeap(CellLink(Heap, a, b, w))
    /\ manualOps' = manualOps + 1
    /\ error' = "none"
    /\ UNCHANGED <<grid, width, height, cells, cellRes, callArgs, rng, oracle, gen, tree, events, runs, sol, solution>>

\* a.unlink(b) called by the caller
Unlink(a, b) ==
    /\ grid = "ok" /\ gen.pc = "idle" /\ sol.pc = "idle" /\ manualOps < MaxManualOps
    /\ SetHeap(CellUnlink(Heap, a, b))
    /\ manualOps' = manualOps + 1
    /\ error' = "none"
    /\ UNCHANGED <<grid, width, height, cells, cellRes, callArgs, rng, oracle, gen, tree, events, runs, sol, solution>>

\* c.reset_links() called by the caller
ResetLinks(c) ==
    /\ grid = "ok" /\ gen.pc = "idle" /\ sol.pc = "idle" /\ manualOps < MaxManualOps
    /\ SetHeap(reset_links(Heap, c))
    /\ manualOps' = manualOps + 1
    /\ error' = "none"
    /\ UNCHANGED <<grid, width, height, cells, cellRes, callArgs, rng, oracle, gen, tree, events, runs, sol, solution>>

\* grid.reset() called by the caller
GridReset ==
    /\ grid = "ok" /\ gen.pc = "idle" /\ sol.pc = "idle"
    /\ SetHeap(reset(Heap))
    /\ error' = "none"
    /\ UNCHANGED <<grid, width, height, cells, cellRes, callArgs, manualOps, rng, oracle, gen, tree, events, runs, sol, solution>>

(* ------------------------------ claims ------------------------------- *)

\* generate() has returned and the caller holds its MazeTree.  In Spec only
\* generate() changes the grid, so the grid is as that call left it.
Returned == tree # None /\ gen.pc = "idle"

\* solve() has returned and the caller holds its MazeSolution.
Solved == Returned /\ solution # None /\ sol.pc = "idle"

Abs(i) == IF i < 0 THEN 0 - i ELSE i

Adjacent(a, b) == Abs(a[1] - b[1]) + Abs(a[2] - b[2]) = 1

Linked(a, b) == DictHas(links[a], b)

\* The undirected links of the grid.
LinkEdges == UNION {{{a, b} : b \in Range(DictKeys(links[a]))} : a \in DOMAIN links}

RECURSIVE ReachFrom(_)
ReachFrom(S) ==
    LET N == S \cup {b \in Cells : \E a \in S : Linked(a, b)}
    IN IF N = S THEN S ELSE ReachFrom(N)

Connected == \A c \in Cells : ReachFrom({c}) = Cells

\* Removing, again and again, every edge that ends in a cell of degree one
\* leaves no edge exactly when the edges hold no cycle.
RECURSIVE PruneLeaves(_)
PruneLeaves(E) ==
    LET deg(c) == Cardinality({e \in E : c \in e})
        leafEdges == {e \in E : Cardinality(e) = 2 /\ \E c \in e : deg(c) = 1}
    IN IF leafEdges = {} THEN E ELSE PruneLeaves(E \ leafEdges)

Acyclic == PruneLeaves(LinkEdges) = {}

\* C1: when generate() of any generator returns, whatever the grid held before,
\* the link graph is a spanning tree of the grid: links join orthogonally
\* adjacent cells only, all cells are connected, there is no cycle, and there
\* are exactly width*height - 1 undirected links.
C1_SpanningTree ==
    Returned =>
        /\ \A a \in Cells : \A b \in Range(DictKeys(links[a])) : b \in Cells /\ Adjacent(a, b)
        /\ Connected
        /\ Acyclic
        /\ Cardinality(LinkEdges) = width * height - 1

\* A RandomGrowth maze on the 2x2 grid, where a cycle is possible.
C1_Witness ==
    /\ Returned
    /\ gen.kind = "random_growth"
    /\ width = 2 /\ height = 2
    /\ Cardinality(LinkEdges) = 3

\* C2: the visit_order of the returned MazeTree holds every cell exactly once.
C2_VisitOrderOnce ==
    Returned =>
        /\ Range(tree.visit_order) = Cells
        /\ Len(tree.visit_order) = Cardinality(Cells)

\* C3: after generate() the parent/children fields form a tree rooted at start
\* that is consistent with links: the root has no parent, every other cell has
\* a parent among its linked neighbours, d is in c.children exactly when
\* d.parent is c, and every parent chain ends at the root.
C3_ParentTree ==
    Returned =>
        /\ parent[tree.root] = None
        /\ \A c \in Cells \ {tree.root} : parent[c] # None /\ Linked(c, parent[c])
        /\ \A c \in Cells, d \in Cells : (d \in Range(children[c])) <=> (parent[d] = c)
        /\ \A c \in Cells : Head(path_to(c)) = tree.root

\* C4: path_to(target) is the path BreadthFirst.solve(tree, target) returns.
C4_PathToIsBfsPath ==
    (Solved /\ solution.algorithm = "bfs") => path_to(sol.target) = solution.path

\* C5: after generate(), both solvers find every in-bounds target: the path is
\* not empty, starts at tree.root, ends at the target, and its consecutive
\* cells are linked.
C5_AlwaysFound ==
    Solved =>
        /\ solution.found
        /\ solution.path # <<>>
        /\ Head(solution.path) = tree.root
        /\ solution.path[Len(solution.path)] = sol.target
        /\ \A i \in 1..(Len(solution.path) - 1) : Linked(solution.path[i], solution.path[i + 1])

\* A DepthFirst solve on the 2x2 grid whose path has three edges.
C5_Witness ==
    /\ Solved
    /\ solution.algorithm = "dfs"
    /\ width = 2 /\ height = 2
    /\ Len(solution.path) = 4

\* The number of edges of a shortest path from a to b in the link graph
\* (the number of cells if there is none), by growing the set of cells
\* within d links of a.
RECURSIVE DistFrom(_, _, _)
DistFrom(S, b, d) ==
    IF b \in S THEN d
    ELSE LET N == S \cup {y \in Cells : \E x \in S : Linked(x, y)}
         IN IF N = S THEN Cardinality(Cells) ELSE DistFrom(N, b, d + 1)

TreeDist(a, b) == DistFrom({a}, b, 0)

\* C6: for every generated tree and target, BreadthFirst's path_length is at
\* most DepthFirst's, both are at least the number of edges of the link-graph
\* path from tree.root to the target, and BreadthFirst's equals it.
C6_PathLengths ==
    Solved =>
        LET b == IF solution.algorithm = "bfs" THEN solution ELSE SolveRun("bfs", sol.target)
            d == IF solution.algorithm = "dfs" THEN solution ELSE SolveRun("dfs", sol.target)
            t == TreeDist(tree.root, sol.target)
        IN /\ b.path_length <= d.path_length
           /\ b.path_length >= t
           /\ d.path_length >= t
           /\ b.path_length = t

\* A BreadthFirst solve on the 2x2 grid to a target three links from the root.
C6_Witness ==
    /\ Solved
    /\ solution.algorithm = "bfs"
    /\ width = 2 /\ height = 2
    /\ TreeDist(tree.root, sol.target) = 3
    /\ solution.path_length = 3

\* The end-to-end example: a 3x3 grid, BinaryTree from (0,0) with east chosen
\* wherever east is in bounds, then BreadthFirst to (2,2).  A cell is linked
\* to its east neighbour exactly when it chose east.
E2ECase ==
    /\ width = 3 /\ height = 3
    /\ gen.kind = "binary_tree"
    /\ tree.root = <<0, 0>>
    /\ \A c \in Cells : contains(c[1] + 1, c[2]) => Linked(c, <<c[1] + 1, c[2]>>)
    /\ solution.algorithm = "bfs"
    /\ sol.target = <<2, 2>>

\* C7 as stated: the example returns found, a path of 4 edges and nodes_expanded = 9.
C7_E2E_Original ==
    (Solved /\ E2ECase) =>
        solution.found /\ solution.path_length = 4 /\ solution.nodes_expanded = 9

\* C7 as amended: the example returns found, a path of 4 edges and
\* nodes_expanded = 6: (0,0), (1,0), (2,0), (2,1), (1,1), (2,2) are explored
\* and the search stops at the target.
C7_E2E ==
    (Solved /\ E2ECase) =>
        /\ solution.found
        /\ solution.path_length = 4
        /\ solution.nodes_expanded = 6
        /\ solution.path = <<<<0, 0>>, <<1, 0>>, <<2, 0>>, <<2, 1>>, <<2, 2>>>>

C7_Witness == Solved /\ E2ECase

\* The k-th generate() of both seeded instances was called with the same start,
\* and so were all their earlier ones.
SameCalls(k) ==
    /\ k <= Len(runs[1]) /\ k <= Len(runs[2])
    /\ \A j \in 1..k : runs[1][j].start = runs[2][j].start

C9_Errors ==
    /\ (callArgs # <<>> /\ callArgs[1] = "MazeGrid") =>
          LET w == callArgs[2]
              h == callArgs[3]
          IN /\ (error = "ValueError") <=> (w <= 0 \/ h <= 0)
             /\ error = "ValueError" => (grid = "none" /\ cells = <<>>)
             /\ error # "ValueError" =>
                   /\ error = "none" /\ grid = "ok" /\ width = w /\ height = h
                   /\ Cells = {<<x, y>> : x \in 0..(w - 1), y \in 0..(h - 1)}
    /\ (callArgs # <<>> /\ callArgs[1] = "cell") =>
          LET x == callArgs[2]
              y == callArgs[3]
              inside == 0 <= x /\ x < width /\ 0 <= y /\ y < height
          IN /\ contains(x, y) <=> inside
             /\ (error = "IndexError") <=> ~contains(x, y)
             /\ (error = "IndexError") <=> ~cellRes.ok
             /\ inside => (error = "none" /\ cellRes.val = <<x, y>>)

\* cell(width, 0) on a 2x3 grid raised IndexError.
C9_Witness ==
    /\ grid = "ok" /\ width = 2 /\ height = 3
    /\ callArgs = <<"cell", 2, 0>>
    /\ error = "IndexError"
    /\ ~cellRes.ok

\* C10: in every reachable state, after any direct link, unlink, reset_links
\* and reset calls and any generate() (also between two steps of its loop), B
\* is in A.links exactly when A is in B.links, with the same weight.
C10_LinksSymmetric ==
    \A a \in DOMAIN links : \A b \in Range(DictKeys(links[a])) :
        /\ b \in DOMAIN links
        /\ DictHas(links[b], a)
        /\ DictGet(links[b], a) = DictGet(links[a], b)

\* After a generate(), a direct link call gave two distinct cells a link of weight 2.
C10_Witness ==
    /\ tree # None
    /\ manualOps > 0
    /\ \E a \in Cells, b \in Cells :
          a # b /\ Linked(a, b) /\ Linked(b, a) /\ DictGet(links[a], b) = 2

\* Every cell has empty links, no parent and no children.
AllCleared ==
    \A c \in Cells : links[c] = <<>> /\ parent[c] = None /\ children[c] = <<>>

\* C11: from any reachable grid state (after any direct link, unlink and
\* reset_links calls and any generate()), a grid.reset() step leaves every cell
\* with empty links, no parent and empty children, and changes neither the
\* dimensions nor the cells of the grid.
C11_ResetClears ==
    [][GridReset =>
          /\ AllCleared'
          /\ width' = width /\ height' = height /\ cells' = cells
          /\ DOMAIN links' = Cells /\ DOMAIN parent' = Cells /\ DOMAIN children' = Cells]_vars

\* A maze of three cells was generated, one direct call was made, and the grid is
\* cleared: no single link, unlink or reset_links call clears such a maze.
C11_Witness ==
    /\ tree # None /\ gen.pc = "idle"
    /\ width * height = 3
    /\ manualOps = 1
    /\ AllCleared

\* The cells of the activate events recorded, in order.
ActivatedCells ==
    LET acts == SelectSeq(events, LAMBDA e : e.phase = "generate" /\ e.event = "activate")
    IN [i \in 1..Len(acts) |-> acts[i].cell]

\* C12: BinaryTree.generate visits the cells in column-major order, the order
\* of iterating the grid (x outer, y inner): the returned visit_order and the
\* cells of its activate events are (0,0), (0,1), ..., (0,height-1), (1,0), ...
C12_ColumnMajor ==
    (Returned /\ gen.kind = "binary_tree" /\ callArgs[1] = "generate") =>
        /\ tree.visit_order = AllCells
        /\ ActivatedCells = AllCells

\* The events of the recorder with this phase and name, in order.
EventsOf(phase, event) ==
    SelectSeq(events, LAMBDA e : e.phase = phase /\ e.event = event)

\* solve() has just returned: the recorder holds the events of that call and
\* the links are those the call read.
JustSolved == Solved /\ callArgs[1] = "solve" /\ error = "none"

\* C13: for both solvers, with a recorder: one solve/explore event per
\* explored cell, in explored order; if the target is never reached the call
\* returns path = [], found = false and records no solve/path event; if it is
\* reached, exactly one solve/path event is recorded, it is the last event of
\* the call, and its cells are the returned path from root to target.
C13_SolveEvents ==
    JustSolved =>
        LET ex == EventsOf("solve", "explore")
            pa == EventsOf("solve", "path")
        IN /\ [i \in 1..Len(ex) |-> ex[i].cell] = solution.explored
           /\ Len(events) = Len(ex) + Len(pa)
           /\ IF sol.target \notin Range(solution.explored)
              THEN /\ solution.path = <<>>
                   /\ ~solution.found
                   /\ pa = <<>>
              ELSE /\ solution.found
                   /\ Len(pa) = 1
                   /\ events[Len(events)] = pa[1]
                   /\ pa[1].cells = solution.path
                   /\ Head(solution.path) = tree.root
                   /\ solution.path[Len(solution.path)] = sol.target

\* On a grid of three cells a solve explored two cells and did not reach the target.
C13_Witness ==
    /\ JustSolved
    /\ width * height = 3
    /\ ~solution.found
    /\ Len(solution.explored) = 2
    /\ Len(events) = 2

NoDup(s) == \A i \in 1..Len(s), j \in 1..Len(s) : i # j => s[i] # s[j]

\* C14: during any solve call of either solver, over any link graph, a cell in
\* parents is never added to the queue/stack again: the cells explored and the
\* cells waiting are all different and are exactly the keys of parents, no
\* cell is twice in explored, and nodes_expanded is at most width*height.
C14_VisitedOnce ==
    /\ sol.pc \in {"loop", "build"} =>
          /\ NoDup(sol.explored \o sol.work)
          /\ Range(sol.explored \o sol.work) = DOMAIN sol.parents
          /\ Len(sol.explored) <= width * height
    /\ solution # None =>
          /\ NoDup(solution.explored)
          /\ solution.nodes_expanded = Len(solution.explored)
          /\ solution.nodes_expanded <= width * height

\* A solve over a link graph with a cycle through all three cells explored every cell.
C14_Witness ==
    /\ JustSolved
    /\ width * height = 3
    /\ \A a \in Cells, b \in Cells : a # b => Linked(a, b)
    /\ solution.nodes_expanded = 3

\* The distances from tree.root never decrease along s.
ByDistance(s) ==
    \A i \in 1..Len(s), j \in 1..Len(s) :
        i < j => TreeDist(tree.root, s[i]) <= TreeDist(tree.root, s[j])

\* C15: BreadthFirst explores cells in non-decreasing order of their edge
\* distance from tree.root and stops the instant the popped cell is the
\* target: the target is then the last element of explored, nothing is
\* explored after it, and its neighbours are not expanded (no cell gets the
\* target as its search parent).
C15_BfsOrder ==
    /\ (sol.kind = "bfs" /\ sol.pc \in {"loop", "build"}) =>
          /\ ByDistance(sol.explored)
          /\ sol.pc = "loop" => sol.target \notin Range(sol.explored)
          /\ sol.pc = "build" =>
                /\ sol.explored[Len(sol.explored)] = sol.target
                /\ \A c \in DOMAIN sol.parents : sol.parents[c] # sol.target
    /\ (JustSolved /\ solution.algorithm = "bfs") =>
          /\ ByDistance(solution.explored)
          /\ solution.found =>
                /\ solution.explored[Len(solution.explored)] = sol.target
                /\ \A i \in 1..(Len(solution.explored) - 1) : solution.explored[i] # sol.target

\* BreadthFirst found a target next to the root and left a linked cell unexplored.
C15_Witness ==
    /\ JustSolved /\ solution.algorithm = "bfs"
    /\ width * height = 3
    /\ solution.found
    /\ TreeDist(tree.root, sol.target) = 1
    /\ Len(solution.explored) < Cardinality(ReachFrom({tree.root}))
    /\ \E c \in Cells : Linked(sol.target, c) /\ c \notin Range(solution.explored)

\* C17: generate -> grid.reset() -> solve(tree, target): on the cleared grid
\* both solvers return found = false, path = [] and explored = [tree.root]
\* for every in-bounds target other than the root, and found = true with
\* path = [tree.root] and path_length = 0 when the target is the root.
C17_ResetInvalidatesTree ==
    (JustSolved /\ AllCleared) =>
        IF sol.target = tree.root
        THEN /\ solution.found
             /\ solution.path = <<tree.root>>
             /\ solution.path_length = 0
        ELSE /\ ~solution.found
             /\ solution.path = <<>>
             /\ solution.explored = <<tree.root>>

\* A maze of three cells was generated and reset, with no other direct call,
\* and a DepthFirst solve to a cell other than the root has returned.
C17_Witness ==
    /\ JustSolved /\ AllCleared
    /\ width * height = 3
    /\ manualOps = 0
    /\ solution.algorithm = "dfs"
    /\ sol.target # tree.root
    /\ ~solution.found

\* The coordinates a call may pass that are outside [0, width) x [0, height).
OutOfRange ==
    {c \in (MinDim..MaxErrCells) \X (MinDim..MaxErrCells) :
        ~(0 <= c[1] /\ c[1] < width /\ 0 <= c[2] /\ c[2] < height)}

\* The last call was this one (generate or solve) with out-of-range coordinates.
\* No loop runs after such a call, so a state where this holds is the state the
\* call left, and a step into it is that call.
FailedCall(name) ==
    callArgs # <<>> /\ callArgs[1] = name /\ callArgs[3] \in OutOfRange

\* C16: a generate() step with an out-of-range start and a solve() step with an
\* out-of-range target raise IndexError (OutOfBounds) to the caller: no
\* generation or search is started, the caller gets no MazeTree and no
\* MazeSolution (it holds what it held), and the recorder of the call is empty.
C16_OutOfBoundsCalls ==
    [][(FailedCall("generate")' \/ FailedCall("solve")') =>
          /\ error' = "IndexError"
          /\ gen'.pc = "idle" /\ gen' = gen
          /\ sol'.pc = "idle" /\ sol' = sol
          /\ tree' = tree /\ solution' = solution
          /\ events' = <<>>]_vars

\* After a solve that returned a solution, solve(tree, (0, -1)) raised IndexError.
C16_Witness ==
    /\ callArgs # <<>> /\ callArgs[1] = "solve" /\ callArgs[3] = <<0, 0 - 1>>
    /\ error = "IndexError"
    /\ tree # None /\ solution # None
    /\ sol.pc = "idle"
    /\ events = <<>>

\* C18: generate() resets the grid before it validates start: a generate()
\* step of any generator that fails on an out-of-range start leaves every cell
\* with empty links, no parent and no children, whereas a solve() step that
\* fails on an out-of-range target leaves links, parent and children unchanged.
C18_ResetBeforeValidation ==
    [][/\ FailedCall("generate")' => (error' = "IndexError" /\ AllCleared')
       /\ FailedCall("solve")' =>
             /\ error' = "IndexError"
             /\ links' = links /\ parent' = parent /\ children' = children]_vars

\* generate(grid, (width, 0)) failed on a grid of two cells that held a maze:
\* the caller still holds the tree of that maze and the grid is cleared.
C18_Witness ==
    /\ callArgs # <<>> /\ callArgs[1] = "generate" /\ callArgs[3] = <<width, 0>>
    /\ error = "IndexError"
    /\ width * height = 2
    /\ tree # None /\ Len(tree.visit_order) >= 2
    /\ AllCleared

\* C19: solve() of either solver is read-only on the maze: no step of a solve
\* call (its start, an iteration of its loop, its return) changes a cell's
\* links, parent or children or the tree's root and visit_order; and the
\* solution returned is the one a solve of the same solver to the same target
\* gives on the maze as it is after the call, so that solves repeated in any
\* number and order return the same path and explored sequence.
C19_SolveReadOnly ==
    /\ [][(sol.pc # "idle" \/ sol'.pc # "idle") =>
             /\ links' = links /\ parent' = parent /\ children' = children
             /\ tree' = tree]_vars
    /\ [](JustSolved =>
             /\ solution.path = SolveRun(solution.algorithm, sol.target).path
             /\ solution.explored = SolveRun(solution.algorithm, sol.target).explored)

\* A DepthFirst solve on a BinaryTree maze of four cells, started from a cell
\* other than (0,0), explored three cells and more, and has returned.
C19_Witness ==
    /\ JustSolved
    /\ gen.kind = "binary_tree"
    /\ width * height = 4
    /\ tree.root # <<0, 0>>
    /\ solution.algorithm = "dfs"
    /\ Len(solution.explored) >= 3

\* The number of loop iterations the running worklist generator has made, from
\* its worklist: every cell that entered is in visited, every cell that left is
\* in visited and not in the worklist; a RandomGrowth iteration either brings
\* one cell in or takes one out, a SpanningTree iteration takes one out.
WorklistCounts ==
    (gen.pc = "loop" /\ gen.kind \in {"random_growth", "spanning_tree"}) =>
        LET n == width * height
            entered == Cardinality(gen.visited)
            left == Cardinality(gen.visited) - Len(gen.work)
            last == IF gen.kind = "random_growth" THEN 2 * n - 1 ELSE n
        IN /\ NoDup(gen.work)
           /\ Range(gen.work) \subseteq gen.visited
           /\ gen.step = IF gen.kind = "random_growth" THEN (entered - 1) + left ELSE left
           /\ gen.step <= last
           /\ gen.work = <<>> =>
                 /\ gen.visited = Cells
                 /\ gen.step = last
                 /\ Len(gen.visit_order) = last

\* C20: both worklist generators terminate whatever the random choices are, in
\* a fixed number of iterations on a grid of n cells: RandomGrowth in 2n - 1
\* (n - 1 that link a new cell and n that remove a cell from active),
\* SpanningTree in n; a cell enters the worklist only if it never was in it, and
\* when the loop ends every cell has entered and left.
C20_WorklistTerminates ==
    /\ []WorklistCounts
    /\ [][\A c \in Range(gen'.work) : c \notin Range(gen.work) => c \notin gen.visited]_vars
    /\ (gen.pc = "loop" /\ gen.kind \in {"random_growth", "spanning_tree"}) ~> (gen.pc = "idle")

\* RandomGrowth on the 2x2 grid has made its 7th iteration and its worklist is empty.
C20_Witness ==
    /\ gen.pc = "loop" /\ gen.kind = "random_growth"
    /\ width = 2 /\ height = 2
    /\ gen.work = <<>>
    /\ gen.step = 7

\* The first cell of the sequence s that is an orthogonal neighbour of c.
FirstNeighbourIn(s, c) ==
    s[CHOOSE i \in 1..Len(s) :
          Adjacent(s[i], c) /\ \A j \in 1..(i - 1) : ~Adjacent(s[j], c)]

\* C21: SpanningTree links all unvisited neighbours of the popped cell in one
\* step: after each iteration every in-bounds orthogonal neighbour of the
\* popped cell is visited and linked to some cell; in the finished maze the
\* root is linked to every one of its neighbours, and the parent of every other
\* cell is the first of its orthogonal neighbours in visit_order.
C21_SpanningTreeLinksAll ==
    /\ (gen.pc = "loop" /\ gen.kind = "spanning_tree" /\ gen.visit_order # <<>>) =>
          \A n \in Range(neighbors(gen.visit_order[Len(gen.visit_order)])) :
              n \in gen.visited /\ links[n] # <<>>
    /\ (Returned /\ gen.kind = "spanning_tree") =>
          /\ \A n \in Range(neighbors(tree.root)) : Linked(tree.root, n)
          /\ \A c \in Cells \ {tree.root} :
                parent[c] = FirstNeighbourIn(tree.visit_order, c)

\* A SpanningTree maze on the 2x2 grid in which the cell opposite the root got
\* as parent the second cell popped, a neighbour of the root.
C21_Witness ==
    /\ Returned /\ gen.kind = "spanning_tree"
    /\ width = 2 /\ height = 2
    /\ tree.root = <<0, 0>>
    /\ parent[<<1, 1>>] = tree.visit_order[2]
    /\ Linked(<<0, 0>>, <<1, 0>>) /\ Linked(<<0, 0>>, <<0, 1>>)

\* c is linked to the cell at (x, y), which is in bounds.
LinkedTo(c, x, y) == contains(x, y) /\ Linked(c, <<x, y>>)

\* C22: shape of a BinaryTree maze, whatever the random choices: every cell but
\* the last one (width-1, height-1) is linked to exactly one of its east and
\* south neighbours, the last cell to neither; so the cells of the last column
\* are linked downwards and those of the last row to the right; and the link
\* graph does not depend on start: two instances with the same seed carve the
\* same links run for run, whatever starts they are given.
C22_BinaryTreeShape ==
    /\ (Returned /\ gen.kind = "binary_tree") =>
          \A c \in Cells :
              LET east == LinkedTo(c, c[1] + 1, c[2])
                  south == LinkedTo(c, c[1], c[2] + 1)
              IN IF c = <<width - 1, height - 1>>
                 THEN ~east /\ ~south
                 ELSE /\ east # south
                      /\ c[1] = width - 1 => south
                      /\ c[2] = height - 1 => east
    /\ \A k \in 1..MaxRuns :
          (k <= Len(runs[1]) /\ k <= Len(runs[2])) => runs[1][k].links = runs[2][k].links

\* On the 2x2 grid both instances have run, from different starts, and the maze
\* in the grid links (0,0) to the cell below it.
C22_Witness ==
    /\ Returned /\ gen.kind = "binary_tree"
    /\ width = 2 /\ height = 2
    /\ Len(runs[1]) >= 1 /\ Len(runs[2]) >= 1
    /\ runs[1][1].start # runs[2][1].start
    /\ Linked(<<0, 0>>, <<0, 1>>) /\ ~Linked(<<0, 0>>, <<1, 0>>)

\* The linked neighbours of c that were not in parents when c was explored, in
\* c's link iteration order: those whose recorded search parent is c.
Discovered(c) ==
    SelectSeq(DictKeys(links[c]),
              LAMBDA n : n \in DOMAIN sol.parents /\ sol.parents[n] = c)

\* The position of cell c in the sequence s (0 if it is not there).
IndexIn(s, c) == IF c \in Range(s) THEN CHOOSE i \in 1..Len(s) : s[i] = c ELSE 0

\* C23: DepthFirst explores in LIFO order: in every state of a DepthFirst
\* solve, a non-target explored cell that discovered neighbours is followed in
\* explored (or, if it is the last explored, on top of the stack) by the last
\* neighbour it discovered; every explored cell other than the root comes after
\* its recorded parent; and once the target is popped it is the last of explored.
C23_DfsLifo ==
    (sol.kind = "dfs" /\ sol.pc \in {"loop", "build"}) =>
        /\ \A i \in 1..Len(sol.explored) :
              LET c == sol.explored[i]
                  d == Discovered(c)
              IN (c # sol.target /\ d # <<>>) =>
                     IF i < Len(sol.explored)
                     THEN sol.explored[i + 1] = d[Len(d)]
                     ELSE sol.work # <<>> /\ sol.work[Len(sol.work)] = d[Len(d)]
        /\ \A i \in 1..Len(sol.explored) :
              sol.explored[i] # tree.root =>
                  /\ IndexIn(sol.explored, sol.parents[sol.explored[i]]) > 0
                  /\ IndexIn(sol.explored, sol.parents[sol.explored[i]]) < i
        /\ sol.pc = "build" => sol.explored[Len(sol.explored)] = sol.target
        /\ sol.pc = "loop" => sol.target \notin Range(sol.explored)

\* On a grid of three cells the root discovered two neighbours, the last of
\* them was explored next, and the search has popped the target.
C23_Witness ==
    /\ sol.kind = "dfs" /\ sol.pc = "build"
    /\ width * height = 3
    /\ Len(Discovered(tree.root)) = 2
    /\ Len(sol.explored) = 3
    /\ sol.explored[2] = Discovered(tree.root)[2]

\* The cell of the most recent activate event before position i of events
\* (None if there is none).
LastActivated(i) ==
    LET before == {j \in 1..(i - 1) : events[j].event = "activate"}
    IN IF before = {} THEN None
       ELSE events[CHOOSE j \in before : \A k \in before : k <= j].cell

\* C24: generation timeline, for every generator run with a recorder: the
\* events are generate events, one activate event per entry of visit_order in
\* visit_order order, and one link event per link created, width*height - 1 in
\* total; the parent of each link event is the cell of the most recent
\* activate event before it and its (parent, child) pair is a link of the
\* final grid; in BinaryTree the k-th activate event carries step = k.
C24_GenerationTimeline ==
    (Returned /\ callArgs[1] = "generate") =>
        LET acts == EventsOf("generate", "activate")
            lks == EventsOf("generate", "link")
        IN /\ Len(events) = Len(acts) + Len(lks)
           /\ [i \in 1..Len(acts) |-> acts[i].cell] = tree.visit_order
           /\ Len(lks) = width * height - 1
           /\ {{lks[i].parent, lks[i].child} : i \in 1..Len(lks)} = LinkEdges
           /\ Cardinality(LinkEdges) = Len(lks)
           /\ \A i \in 1..Len(events) :
                 events[i].event = "link" =>
                     /\ events[i].parent = LastActivated(i)
                     /\ Linked(events[i].parent, events[i].child)
           /\ gen.kind = "binary_tree" => \A k \in 1..Len(acts) : acts[k].step = k

\* A RandomGrowth run on the 2x2 grid recorded seven activate and three link events.
C24_Witness ==
    /\ Returned /\ callArgs[1] = "generate"
    /\ gen.kind = "random_growth"
    /\ width = 2 /\ height = 2
    /\ Len(EventsOf("generate", "activate")) = 7
    /\ Len(EventsOf("generate", "link")) = 3

(* -------------------------- specifications --------------------------- *)

\* One instance of each generator class, each built with seed=None.
MainGens ==
    <<[kind |-> "binary_tree", seeded |-> FALSE, seed |-> 0, hist |-> <<>>],
      [kind |-> "random_growth", seeded |-> FALSE, seed |-> 0, hist |-> <<>>],
      [kind |-> "spanning_tree", seeded |-> FALSE, seed |-> 0, hist |-> <<>>]>>

InitBase ==
    /\ grid = "none"
    /\ width = 0
    /\ height = 0
    /\ cells = <<>>
    /\ links = <<>>
    /\ parent = <<>>
    /\ children = <<>>
    /\ error = "none"
    /\ cellRes = [ok |-> FALSE, val |-> "none"]
    /\ callArgs = <<>>
    /\ manualOps = 0
    /\ oracle = {}
    /\ gen = IdleGen
    /\ tree = None
    /\ events = <<>>
    /\ sol = IdleSol
    /\ solution = None

Init ==
    /\ InitBase
    /\ rng = MainGens
    /\ runs = <<<<>>, <<>>, <<>>>>

\* The caller passes a recorder to every generate() and solve().
Recorders == {TRUE}

ConstructAny(maxCells) ==
    \E w \in 0..maxCells, h \in 0..maxCells :
        /\ w * h <= maxCells
        /\ Construct(w, h)

Generate ==
    \/ \E g \in DOMAIN rng, s \in Cells, rec \in Recorders : GenerateCall(g, s, rec)
    \/ GenerateStep
    \/ GenerateReturn

Solve ==
    \/ \E k \in Solvers, t \in Cells, rec \in Recorders : SolveCall(k, t, rec)
    \/ SolveStep
    \/ SolveReturn

(* The main specification: a grid of at most MaxCells cells, on which the   *)
(* caller runs any generator from any cell, any number of times, and any   *)
(* solver to any cell.                                                      *)
Next ==
    \/ ConstructAny(MaxCells)
    \/ Generate
    \/ Solve

Spec == Init /\ [][Next]_vars

(* Grid construction and cell(x, y) on every pair of arguments.             *)
NextGrid ==
    \/ \E w \in MinDim..MaxDim, h \in MinDim..MaxDim : Construct(w, h)
    \/ \E x \in MinDim..(MaxDim + 1), y \in MinDim..(MaxDim + 1) : CellCall(x, y)

SpecGrid == Init /\ [][NextGrid]_vars

(* Direct link, unlink, reset_links and reset calls, before and after       *)
(* generate(), on a grid of at most MaxLinkCells cells.                     *)
NextLinks ==
    \/ ConstructAny(MaxLinkCells)
    \/ \E a \in Cells, b \in Cells, w \in 1..MaxWeight : Link(a, b, w)
    \/ \E a \in Cells, b \in Cells : Unlink(a, b)
    \/ \E c \in Cells : ResetLinks(c)
    \/ GridReset
    \/ Generate

SpecLinks == Init /\ [][NextLinks]_vars

\* The coordinates the caller passes to generate() and solve(), in and out of range.
CallCoords == (MinDim..MaxErrCells) \X (MinDim..MaxErrCells)

(* generate() and solve() called with any coordinates, in range or not, on  *)
(* a grid of at most MaxErrCells cells.                                     *)
NextErr ==
    \/ ConstructAny(MaxErrCells)
    \/ \E g \in DOMAIN rng, s \in CallCoords : GenerateCall(g, s, TRUE)
    \/ GenerateStep
    \/ GenerateReturn
    \/ \E k \in Solvers, t \in CallCoords : SolveCall(k, t, TRUE)
    \/ SolveStep
    \/ SolveReturn

SpecErr == Init /\ [][NextErr]_vars

(* Two BinaryTree instances built with the same seed, each called at most   *)
(* MaxRuns times with any start on one grid of at most MaxCells cells.      *)
InitShape ==
    /\ InitBase
    /\ rng = <<[kind |-> "binary_tree", seeded |-> TRUE, seed |-> 1, hist |-> <<>>],
               [kind |-> "binary_tree", seeded |-> TRUE, seed |-> 1, hist |-> <<>>]>>
    /\ runs = <<<<>>, <<>>>>

NextShape ==
    \/ ConstructAny(MaxCells)
    \/ \E g \in DOMAIN rng, s \in Cells :
          /\ Len(runs[g]) < MaxRuns
          /\ GenerateCall(g, s, TRUE)
    \/ \E r \in 0..1 : BinaryTreeStep(r)
    \/ GenerateReturn

SpecShape == InitShape /\ [][NextShape]_vars

(* Generation alone, with the fairness of sequential code: a generate()    *)
(* call that has started keeps executing its loop and then returns.         *)
NextLive ==
    \/ ConstructAny(MaxCells)
    \/ Generate

SpecLive == Init /\ [][NextLive]_vars /\ WF_vars(GenerateStep) /\ WF_vars(GenerateReturn)

(* Solving a maze the caller changed after generate(): on a grid of at most *)
(* MaxLinkCells cells the caller generates, then makes direct link, unlink, *)
(* reset_links and reset calls, then solves any number of times.            *)
NextSolve ==
    \/ ConstructAny(MaxLinkCells)
    \/ Generate
    \/ /\ tree # None /\ solution = None
       /\ \/ \E a \in Cells, b \in Cells : Link(a, b, 1)
          \/ \E a \in Cells, b \in Cells : Unlink(a, b)
          \/ \E c \in Cells : ResetLinks(c)
          \/ GridReset
    \/ Solve

SpecSolve == Init /\ [][NextSolve]_vars

(* The end-to-end example: BinaryTree and BreadthFirst on the 3x3 grid.     *)
NextE2E ==
    \/ Construct(3, 3)
    \/ \E s \in Cells : GenerateCall(1, s, TRUE)
    \/ \E r \in 0..1 : BinaryTreeStep(r)
    \/ GenerateReturn
    \/ \E t \in Cells : SolveCall("bfs", t, TRUE)
    \/ SolveStep
    \/ SolveReturn

SpecE2E == Init /\ [][NextE2E]_vars

(* Two generator instances of one class, both built with seed 1, called in  *)
(* any order on one grid of at most MaxReproCells cells, every call with    *)
(* the start of the first one.                                              *)
InitRepro ==
    /\ InitBase
    /\ \E k \in Kinds :
          rng = <<[kind |-> k, seeded |-> TRUE, seed |-> 1, hist |-> <<>>],
                  [kind |-> k, seeded |-> TRUE, seed |-> 1, hist |-> <<>>]>>
    /\ runs = <<<<>>, <<>>>>

NextRepro ==
    \/ ConstructAny(MaxReproCells)
    \/ \E g \in DOMAIN rng, s \in Cells :
          /\ Len(runs[g]) < MaxRuns
          /\ \A h \in DOMAIN rng : \A j \in 1..Len(runs[h]) : runs[h][j].start = s
          /\ GenerateCall(g, s, TRUE)
    \/ GenerateStep
    \/ GenerateReturn
    \/ GridReset

SpecRepro == InitRepro /\ [][NextRepro]_vars

====
